---- MODULE Spec2Model ----
(***************************************************************************)
(* Personal Photo Blog API (main.py): an in-memory registry of photo       *)
(* records behind seven FastAPI route handlers.  The state is the module   *)
(* level list photos_db and the counter photo_id_counter; every handler    *)
(* runs to completion before the next one starts.                          *)
(***************************************************************************)
EXTENDS Integers, Sequences, FiniteSets, TLC

\* ------------------------------------------------------------------ bounds

\* Creates are modelled while photo_id_counter <= MaxCreates.
MaxCreates == 3
\* The UTC clock takes the values 0..MaxClock (seconds after the epoch used
\* by IsoFormat).
MaxClock == 1

\* ------------------------------------------------------------ JSON values

\* Python's None / JSON null, and a present value: an optional value is a
\* sequence of length at most one.
None == <<>>
Some(v) == <<v>>

Range(s) == {s[i] : i \in 1..Len(s)}

\* The request bodies that are sent: JSON objects, a key left out of the
\* object is a key left out of the record's DOMAIN.
FullBody ==
    [title |-> Some("Sunset"), description |-> Some("Evening light"),
     url |-> Some("https://x/sunset.jpg"), tags |-> Some(<<"nature", "beach">>)]
MinimalBody ==
    [title |-> Some("Peak"), url |-> Some("https://x/peak.jpg")]
NullBody ==
    [title |-> Some("Peak"), description |-> None,
     url |-> Some("https://x/peak.jpg"), tags |-> None]
NoTitleBody ==
    [url |-> Some("https://x/peak.jpg"), tags |-> Some(<<"nature">>)]
NoUrlBody ==
    [title |-> Some("Sunset"), description |-> Some("Evening light")]

ValidBodies == {FullBody, MinimalBody, NullBody}
Bodies == ValidBodies \cup {NoTitleBody, NoUrlBody}

\* The ?tag= query parameter: left out, or a string (the empty one, and one
\* that no record carries, included).
TagParams == {None, Some(""), Some("nature"), Some("forest")}

\* The path parameter photo_id: the ids the creates can hand out; one no create
\* has handed out yet is an id that never existed.
Ids == 1..MaxCreates

\* ------------------------------------------------------------------ state

VARIABLES
    photos_db,          \* main.photos_db: the list of photo dicts
    photo_id_counter,   \* main.photo_id_counter
    now,                \* the wall clock read by datetime.utcnow()
    req,                \* the request handled last
    resp,               \* the response to it: status code and body
    created_ids,        \* history: the ids returned by the creates, in call order
    stamped_at,         \* history: id -> the created_at its create returned
    deleted,            \* history: the ids deleted
    test_counter,       \* test_main.photo_id_counter: the name test_main imported
    fib_n,              \* hello_add.fibonacci: its argument n
    fib_i,              \* ... the loop variable i of `for i in range(n)`
    fib_a,              \* ... a
    fib_b,              \* ... b
    fib_out,            \* ... the lines printed so far
    fib_pc,             \* ... where the call stands
    pc,                 \* overlapping handlers: where each of them stands
    local,              \* overlapping handlers: the locals of each
    started,            \* history: the counter when the first of them began
    before              \* history: the list when the first of them began

db_vars == <<photos_db, photo_id_counter>>
hist_vars == <<created_ids, stamped_at, deleted>>
fib_vars == <<fib_n, fib_i, fib_a, fib_b, fib_out, fib_pc>>
thread_vars == <<pc, local, started, before>>
\* What the route handlers of main.py, run one at a time, never touch.
aside_vars == <<test_counter, fib_vars, thread_vars>>

vars == <<photos_db, photo_id_counter, now, req, resp,
          created_ids, stamped_at, deleted, test_counter, fib_vars, thread_vars>>

\* ---------------------------------------------------------------- helpers

\* datetime.isoformat() of the clock value t.
IsoFormat(t) == "2024-01-01T00:00:0" \o ToString(t)

\* The pydantic model Photo: title and url are required strings, description
\* defaults to None and tags to [].  The list of the fields in error.
ValidationErrors(body) ==
    SelectSeq(<<"title", "url">>,
              LAMBDA f : f \notin DOMAIN body \/ body[f] = None)

\* Photo with `description: Optional[str] = ""`.
Photo_EmptyDescription(body) ==
    [title       |-> body.title[1],
     description |-> IF "description" \in DOMAIN body THEN body.description ELSE Some(""),
     url         |-> body.url[1],
     tags        |-> IF "tags" \in DOMAIN body THEN body.tags ELSE Some(<<>>)]

Photo(body) ==
    [title       |-> body.title[1],
     description |-> IF "description" \in DOMAIN body THEN body.description ELSE None,
     url         |-> body.url[1],
     tags        |-> IF "tags" \in DOMAIN body THEN body.tags ELSE Some(<<>>)]

\* `photo.tags or []`: None and the empty list both give [].
TagsOrEmpty(tags) == IF tags = None \/ tags[1] = <<>> THEN <<>> ELSE tags[1]

\* A lookup by position in the list instead of by the "id" key.
FindIndex_ByPosition(db, photo_id) == IF photo_id <= Len(db) THEN photo_id ELSE 0

\* The loops `for i, photo in enumerate(photos_db): if photo["id"] == photo_id`:
\* the first position holding photo_id, 0 when the loop falls through.
FindIndex(db, photo_id) ==
    IF \E i \in 1..Len(db) : db[i].id = photo_id
    THEN CHOOSE i \in 1..Len(db) :
            /\ db[i].id = photo_id
            /\ \A j \in 1..(i - 1) : db[j].id # photo_id
    ELSE 0

\* list.pop() without the index: the last element goes.
Pop_Last(db, i) == SubSeq(db, 1, Len(db) - 1)

\* list.pop(i)
Pop(db, i) == SubSeq(db, 1, i - 1) \o SubSeq(db, i + 1, Len(db))

NotFound(photo_id) ==
    [status |-> 404,
     body   |-> [detail |-> "Photo with id " \o ToString(photo_id) \o " not found"]]

Unprocessable(body) ==
    [status |-> 422, body |-> [detail |-> ValidationErrors(body)]]

\* ------------------------------------------------------------------- Init

\* The handlers that may overlap.
Threads == {1, 2}

\* main.py as imported: the empty list and the counter at 1.
InitMain ==
    /\ photos_db = <<>>
    /\ photo_id_counter = 1
    /\ now = 0
    /\ req = [op |-> "start"]
    /\ resp = [status |-> 0, body |-> None]
    /\ created_ids = <<>>
    /\ stamped_at = <<>>
    /\ deleted = {}

\* `from main import app, photos_db, photo_id_counter`: test_main's own name
\* photo_id_counter is bound to the value the counter has at import, 1.
InitTest == test_counter = 1

\* No call of fibonacci is under way.
InitFibIdle ==
    /\ fib_n = 0
    /\ fib_i = 0
    /\ fib_a = <<0>>
    /\ fib_b = <<0>>
    /\ fib_out = <<>>
    /\ fib_pc = "idle"

\* No handler is under way.
InitThreadsIdle ==
    /\ pc = [t \in Threads |-> "idle"]
    /\ local = [t \in Threads |-> None]
    /\ started = None
    /\ before = None

Init == InitMain /\ InitTest /\ InitFibIdle /\ InitThreadsIdle

\* ---------------------------------------------------------------- actions

\* Time passes between requests.
Tick ==
    /\ UNCHANGED aside_vars
    /\ now < MaxClock
    /\ now' = now + 1
    /\ UNCHANGED <<db_vars, req, resp, hist_vars>>

read_root ==
    /\ UNCHANGED aside_vars
    /\ req' = [op |-> "read_root"]
    /\ resp' = [status |-> 200,
                body   |-> [message |-> "Welcome to Personal Photo Blog API",
                            version |-> "1.0.0"]]
    /\ UNCHANGED <<db_vars, now, hist_vars>>

\* health_check counting the ids handed out instead of the records stored.
health_check_CountsCreated ==
    /\ UNCHANGED aside_vars
    /\ req' = [op |-> "health_check"]
    /\ resp' = [status |-> 200,
                body   |-> [status       |-> "healthy",
                            timestamp    |-> IsoFormat(now),
                            photos_count |-> photo_id_counter - 1]]
    /\ UNCHANGED <<db_vars, now, hist_vars>>

health_check ==
    /\ UNCHANGED aside_vars
    /\ req' = [op |-> "health_check"]
    /\ resp' = [status |-> 200,
                body   |-> [status       |-> "healthy",
                            timestamp    |-> IsoFormat(now),
                            photos_count |-> Len(photos_db)]]
    /\ UNCHANGED <<db_vars, now, hist_vars>>

\* `if tag:` is false for None and for the empty string.
ListResult(db, tag) ==
    IF tag # None /\ tag[1] # ""
    THEN SelectSeq(db, LAMBDA p : tag[1] \in Range(p.tags))
    ELSE db

\* list_photos keeping the filtered list as the collection.
list_photos_FilterInPlace(tag) ==
    /\ UNCHANGED aside_vars
    /\ req' = [op |-> "list_photos", tag |-> tag]
    /\ resp' = [status |-> 200, body |-> ListResult(photos_db, tag)]
    /\ photos_db' = ListResult(photos_db, tag)
    /\ UNCHANGED <<photo_id_counter, now, hist_vars>>

list_photos(tag) ==
    /\ UNCHANGED aside_vars
    /\ req' = [op |-> "list_photos", tag |-> tag]
    /\ resp' = [status |-> 200, body |-> ListResult(photos_db, tag)]
    /\ UNCHANGED <<db_vars, now, hist_vars>>

GetResult(db, photo_id) ==
    IF FindIndex(db, photo_id) # 0
    THEN [status |-> 200, body |-> db[FindIndex(db, photo_id)]]
    ELSE NotFound(photo_id)

get_photo(photo_id) ==
    /\ UNCHANGED aside_vars
    /\ req' = [op |-> "get_photo", photo_id |-> photo_id]
    /\ resp' = GetResult(photos_db, photo_id)
    /\ UNCHANGED <<db_vars, now, hist_vars>>

NewPhoto(photo, id, t) ==
    [id          |-> id,
     title       |-> photo.title,
     description |-> photo.description,
     url         |-> photo.url,
     tags        |-> TagsOrEmpty(photo.tags),
     created_at  |-> IsoFormat(t)]

\* `"id": photo_id_counter`: the id comes from the counter, not from the list.
NextId_FromLength(db, counter) == Len(db) + 1
NextId(db, counter) == counter

\* `photo_id_counter += 1`
NextCounter_Stuck(c) == c
NextCounter(c) == c + 1

\* create_photo taking its id from the counter, and moving the counter on,
\* before the body is validated.
create_photo_CountsRejected(body) ==
    /\ UNCHANGED aside_vars
    /\ photo_id_counter <= MaxCreates
    /\ req' = [op |-> "create_photo", body |-> body]
    /\ photo_id_counter' = NextCounter(photo_id_counter)
    /\ IF ValidationErrors(body) # <<>>
       THEN /\ resp' = Unprocessable(body)
            /\ UNCHANGED <<photos_db, now, hist_vars>>
       ELSE LET new_photo == NewPhoto(Photo(body), NextId(photos_db, photo_id_counter), now) IN
            /\ photos_db' = Append(photos_db, new_photo)
            /\ resp' = [status |-> 201, body |-> new_photo]
            /\ created_ids' = Append(created_ids, new_photo.id)
            /\ stamped_at' = [i \in DOMAIN stamped_at \cup {new_photo.id} |->
                                IF i = new_photo.id THEN new_photo.created_at
                                                    ELSE stamped_at[i]]
            /\ UNCHANGED <<now, deleted>>

create_photo(body) ==
    /\ UNCHANGED aside_vars
    /\ photo_id_counter <= MaxCreates
    /\ req' = [op |-> "create_photo", body |-> body]
    /\ IF ValidationErrors(body) # <<>>
       THEN /\ resp' = Unprocessable(body)
            /\ UNCHANGED <<db_vars, now, hist_vars>>
       ELSE LET new_photo == NewPhoto(Photo(body), NextId(photos_db, photo_id_counter), now) IN
            /\ photos_db' = Append(photos_db, new_photo)
            /\ photo_id_counter' = NextCounter(photo_id_counter)
            /\ resp' = [status |-> 201, body |-> new_photo]
            /\ created_ids' = Append(created_ids, new_photo.id)
            /\ stamped_at' = [i \in DOMAIN stamped_at \cup {new_photo.id} |->
                                IF i = new_photo.id THEN new_photo.created_at
                                                    ELSE stamped_at[i]]
            /\ UNCHANGED <<now, deleted>>

\* A merge (PATCH) instead of a full replace: a description the input leaves
\* out keeps its old value.
UpdatedPhoto_Merge(existing_photo, photo_id, photo) ==
    [id          |-> photo_id,
     title       |-> photo.title,
     description |-> IF photo.description = None THEN existing_photo.description
                                                 ELSE photo.description,
     url         |-> photo.url,
     tags        |-> TagsOrEmpty(photo.tags),
     created_at  |-> existing_photo.created_at]

UpdatedPhoto(existing_photo, photo_id, photo) ==
    [id          |-> photo_id,
     title       |-> photo.title,
     description |-> photo.description,
     url         |-> photo.url,
     tags        |-> TagsOrEmpty(photo.tags),
     created_at  |-> existing_photo.created_at]

\* The record taken out of the list and put back at its end.
ReplaceAt_Reappend(db, i, record) == Append(Pop(db, i), record)

\* `photos_db[i] = updated_photo`
ReplaceAt(db, i, record) == [db EXCEPT ![i] = record]

\* update_photo stamping the time of the update.
update_photo_Restamp(photo_id, body) ==
    /\ UNCHANGED aside_vars
    /\ req' = [op |-> "update_photo", photo_id |-> photo_id, body |-> body]
    /\ LET i == FindIndex(photos_db, photo_id) IN
       IF ValidationErrors(body) # <<>>
       THEN /\ resp' = Unprocessable(body)
            /\ UNCHANGED <<db_vars, now, hist_vars>>
       ELSE IF i = 0
       THEN /\ resp' = NotFound(photo_id)
            /\ UNCHANGED <<db_vars, now, hist_vars>>
       ELSE LET updated_photo == NewPhoto(Photo(body), photo_id, now) IN
            /\ photos_db' = [photos_db EXCEPT ![i] = updated_photo]
            /\ resp' = [status |-> 200, body |-> updated_photo]
            /\ UNCHANGED <<photo_id_counter, now, hist_vars>>

update_photo(photo_id, body) ==
    /\ UNCHANGED aside_vars
    /\ req' = [op |-> "update_photo", photo_id |-> photo_id, body |-> body]
    /\ LET i == FindIndex(photos_db, photo_id) IN
       IF ValidationErrors(body) # <<>>
       THEN /\ resp' = Unprocessable(body)
            /\ UNCHANGED <<db_vars, now, hist_vars>>
       ELSE IF i = 0
       THEN /\ resp' = NotFound(photo_id)
            /\ UNCHANGED <<db_vars, now, hist_vars>>
       ELSE LET updated_photo == UpdatedPhoto(photos_db[i], photo_id, Photo(body)) IN
            /\ photos_db' = ReplaceAt(photos_db, i, updated_photo)
            /\ resp' = [status |-> 200, body |-> updated_photo]
            /\ UNCHANGED <<photo_id_counter, now, hist_vars>>

DeletedMessage(photo_id) == "Photo " \o ToString(photo_id) \o " deleted successfully"

delete_photo(photo_id) ==
    /\ UNCHANGED aside_vars
    /\ req' = [op |-> "delete_photo", photo_id |-> photo_id]
    /\ LET i == FindIndex(photos_db, photo_id) IN
       IF i = 0
       THEN /\ resp' = NotFound(photo_id)
            /\ UNCHANGED <<db_vars, now, hist_vars>>
       ELSE /\ photos_db' = Pop(photos_db, i)
            /\ resp' = [status |-> 200,
                        body   |-> [message       |-> DeletedMessage(photo_id),
                                    deleted_photo |-> photos_db[i]]]
            /\ deleted' = deleted \cup {photo_id}
            /\ UNCHANGED <<photo_id_counter, now, created_ids, stamped_at>>

Next ==
    \/ Tick
    \/ read_root
    \/ health_check
    \/ \E tag \in TagParams : list_photos(tag)
    \/ \E photo_id \in Ids : get_photo(photo_id)
    \/ \E body \in Bodies : create_photo(body)
    \/ \E photo_id \in Ids, body \in Bodies : update_photo(photo_id, body)
    \/ \E photo_id \in Ids : delete_photo(photo_id)

Spec == Init /\ [][Next]_vars

\* ------------------------------------------------- test_main.py's fixture

\* reset_db, run by pytest before each test: `photos_db.clear()` empties the
\* list object test_main shares with main; `globals()["photo_id_counter"] = 1`
\* assigns the name in test_main's own namespace, and main.photo_id_counter,
\* the name create_photo reads, keeps its value.
reset_db ==
    /\ photos_db' = <<>>
    /\ test_counter' = 1
    /\ req' = [op |-> "reset_db"]
    /\ resp' = [status |-> 0, body |-> None]
    /\ UNCHANGED <<photo_id_counter, now, hist_vars, fib_vars, thread_vars>>

NextTest ==
    \/ Next
    \/ reset_db

\* The test session: requests of the test client, with the fixture between them.
SpecTest == Init /\ [][NextTest]_vars

\* ------------------------------------------------------------ hello_add.py

\* fibonacci is called with every n of -1..MaxFibArg, and with main's n.
MaxFibArg == 3
\* `fibonacci(100)` in main().
MainFibArg == 100
FibArgs == (-1..MaxFibArg) \cup {MainFibArg}

\* A Python int is unbounded: a non-negative one is the sequence of its
\* decimal digits, the least significant first.
\* The digit of x at position i, 0 beyond its most significant digit.
BigDigit(x, i) == IF i <= Len(x) THEN x[i] ELSE 0
\* a + b, digit by digit with the carry.
BigAdd(x, y) ==
    LET n == IF Len(x) >= Len(y) THEN Len(x) ELSE Len(y)
        carry[i \in 0..n] ==
            IF i = 0 THEN 0
            ELSE (BigDigit(x, i) + BigDigit(y, i) + carry[i - 1]) \div 10
    IN  [i \in 1..n |-> (BigDigit(x, i) + BigDigit(y, i) + carry[i - 1]) % 10]
        \o (IF carry[n] = 0 THEN <<>> ELSE <<carry[n]>>)

\* str(a), as the f-string formats it: the digits, the most significant first.
RECURSIVE BigStrFrom(_, _)
BigStrFrom(x, k) ==
    IF k = 0 THEN "" ELSE ToString(x[k]) \o BigStrFrom(x, k - 1)
BigStr(x) == BigStrFrom(x, Len(x))

\* `a = b` and then `b = a + b`, one after the other.
FibNext_Sequential(a, b) == <<b, BigAdd(b, b)>>

\* `a, b = b, a + b`: the right-hand side is evaluated before either is bound.
FibNext(a, b) == <<b, BigAdd(a, b)>>

FibHeader(n) == "Fibonacci sequence (first " \o ToString(n) \o " numbers):"
FibLine(i, a) == ToString(i + 1) \o ": " \o BigStr(a)

\* fibonacci(n) is called; a, b and i are not bound yet.
InitFib ==
    /\ InitMain /\ InitTest /\ InitThreadsIdle
    /\ fib_n \in FibArgs
    /\ fib_i = 0
    /\ fib_a = <<0>>
    /\ fib_b = <<0>>
    /\ fib_out = <<>>
    /\ fib_pc = "call"

main_vars == <<photos_db, photo_id_counter, now, req, resp, hist_vars, test_counter>>

\* `if n <= 0: return`; else `a, b = 0, 1` and the header is printed.
fib_enter ==
    /\ fib_pc = "call"
    /\ IF fib_n <= 0
       THEN /\ fib_pc' = "done"
            /\ UNCHANGED <<fib_a, fib_b, fib_out>>
       ELSE /\ fib_a' = <<0>>
            /\ fib_b' = <<1>>
            /\ fib_out' = Append(fib_out, FibHeader(fib_n))
            /\ fib_pc' = "loop"
    /\ UNCHANGED <<fib_n, fib_i, main_vars, thread_vars>>

\* One pass of `for i in range(n)`: the line is printed, a and b move on.
fib_iter ==
    /\ fib_pc = "loop"
    /\ fib_i < fib_n
    /\ fib_out' = Append(fib_out, FibLine(fib_i, fib_a))
    /\ fib_a' = FibNext(fib_a, fib_b)[1]
    /\ fib_b' = FibNext(fib_a, fib_b)[2]
    /\ fib_i' = fib_i + 1
    /\ UNCHANGED <<fib_n, fib_pc, main_vars, thread_vars>>

\* range(n) is exhausted: the function returns.
fib_exit ==
    /\ fib_pc = "loop"
    /\ fib_i >= fib_n
    /\ fib_pc' = "done"
    /\ UNCHANGED <<fib_n, fib_i, fib_a, fib_b, fib_out, main_vars, thread_vars>>

NextFib ==
    \/ fib_enter
    \/ fib_iter
    \/ fib_exit

\* The call runs on until it returns.
SpecFib == InitFib /\ [][NextFib]_vars /\ WF_vars(NextFib)

\* ------------------------------------------- create_photo, two at a time

\* create_photo is a plain `def`: the server runs each call on a thread of its
\* pool, and nothing in main.py takes a lock.  A thread may be switched out
\* between any two of the steps below.

\* The creates handled one after the other before the overlapping ones.
MaxPrior == 1

\* A create handled alone, start to end, while no other is under way.
create_photo_alone ==
    /\ \A t \in Threads : pc[t] = "idle"
    /\ photo_id_counter <= MaxPrior
    /\ \E body \in ValidBodies : create_photo(body)

\* `new_photo = {"id": photo_id_counter, ...}`: the counter is read and the
\* record is built; it is the local new_photo of thread t.
create_photo_build(t) ==
    /\ pc[t] = "idle"
    /\ \E body \in ValidBodies :
          local' = [local EXCEPT ![t] =
                      <<NewPhoto(Photo(body), NextId(photos_db, photo_id_counter), now)>>]
    /\ pc' = [pc EXCEPT ![t] = "built"]
    /\ started' = IF started = None THEN Some(photo_id_counter) ELSE started
    /\ UNCHANGED <<db_vars, now, req, resp, hist_vars, test_counter, fib_vars, before>>

\* `photos_db.append(new_photo)`
create_photo_append(t) ==
    /\ pc[t] = "built"
    /\ photos_db' = Append(photos_db, local[t][1])
    /\ pc' = [pc EXCEPT ![t] = "appended"]
    /\ UNCHANGED <<photo_id_counter, now, req, resp, hist_vars, test_counter,
                   fib_vars, local, started, before>>

\* `photo_id_counter += 1`, first half: the global is loaded.
create_photo_load(t) ==
    /\ pc[t] = "appended"
    /\ local' = [local EXCEPT ![t] = Append(local[t], photo_id_counter)]
    /\ pc' = [pc EXCEPT ![t] = "loaded"]
    /\ UNCHANGED <<db_vars, now, req, resp, hist_vars, test_counter, fib_vars,
                   started, before>>

\* `photo_id_counter += 1`, second half: the value loaded, plus one, is
\* stored; `return new_photo`.
create_photo_store(t) ==
    /\ pc[t] = "loaded"
    /\ photo_id_counter' = NextCounter(local[t][2])
    /\ pc' = [pc EXCEPT ![t] = "done"]
    /\ created_ids' = Append(created_ids, local[t][1].id)
    /\ stamped_at' = [i \in DOMAIN stamped_at \cup {local[t][1].id} |->
                        IF i = local[t][1].id THEN local[t][1].created_at
                                              ELSE stamped_at[i]]
    /\ UNCHANGED <<photos_db, now, req, resp, deleted, test_counter, fib_vars,
                   local, started, before>>

NextOverlap ==
    \/ create_photo_alone
    \/ \E t \in Threads :
          \/ create_photo_build(t)
          \/ create_photo_append(t)
          \/ create_photo_load(t)
          \/ create_photo_store(t)

SpecOverlap == Init /\ [][NextOverlap]_vars

\* ------------------------------ update_photo and delete_photo, overlapping

\* update_photo and delete_photo are plain `def`s too.  Each walks the list
\* with `for i, ... in enumerate(photos_db)`: the iterator keeps a position
\* and reads the list as it is at every pass.  A thread may be switched out
\* between two passes, and between finding the position and using it.

\* The thread that handles the replace, and the one that handles the delete.
Replacer == 1
Deleter == 2

\* The creates handled one after the other before the overlapping calls.
create_photo_before ==
    /\ \A t \in Threads : pc[t] = "idle"
    /\ \E body \in ValidBodies : create_photo(body)

\* The locals of thread t.
Locals(t) == local[t][1]
\* The id the other call was made for, if it has begun: the two calls are for
\* different records.
OtherId(t) == {local[u][1].photo_id : u \in {v \in Threads \ {t} : local[v] # None}}

\* PUT /photos/{photo_id} with a valid body reaches update_photo: the loop
\* starts at the head of the list.
update_photo_begin(photo_id, body) ==
    /\ pc[Replacer] = "idle"
    /\ ValidationErrors(body) = <<>>
    /\ photo_id \notin OtherId(Replacer)
    /\ local' = [local EXCEPT ![Replacer] =
                   Some([photo_id |-> photo_id, photo |-> Photo(body), i |-> 1])]
    /\ pc' = [pc EXCEPT ![Replacer] = "loop"]
    /\ before' = IF before = None THEN Some(photos_db) ELSE before
    /\ UNCHANGED <<db_vars, now, req, resp, hist_vars, test_counter, fib_vars, started>>

\* One pass of update_photo's loop: the iterator is exhausted and the 404 is
\* raised, or the record at the position is read and, if it carries
\* photo_id, updated_photo is built from it.
update_photo_iter ==
    /\ pc[Replacer] = "loop"
    /\ LET l == Locals(Replacer) IN
       IF l.i > Len(photos_db)
       THEN /\ local' = [local EXCEPT ![Replacer] =
                           Some([photo_id |-> l.photo_id, resp |-> NotFound(l.photo_id)])]
            /\ pc' = [pc EXCEPT ![Replacer] = "done"]
       ELSE IF photos_db[l.i].id = l.photo_id
       THEN /\ local' = [local EXCEPT ![Replacer] =
                           Some([photo_id |-> l.photo_id, i |-> l.i,
                                 updated_photo |->
                                    UpdatedPhoto(photos_db[l.i], l.photo_id, l.photo)])]
            /\ pc' = [pc EXCEPT ![Replacer] = "found"]
       ELSE /\ local' = [local EXCEPT ![Replacer] = Some([l EXCEPT !.i = l.i + 1])]
            /\ UNCHANGED pc
    /\ UNCHANGED <<db_vars, now, req, resp, hist_vars, test_counter, fib_vars,
                   started, before>>

\* The answer to a call that raised IndexError.
ServerError == [status |-> 500, body |-> "Internal Server Error"]

\* `photos_db[i] = updated_photo` and the return: the store raises IndexError
\* when the list has no position i any more.
update_photo_store ==
    /\ pc[Replacer] = "found"
    /\ LET l == Locals(Replacer) IN
       IF l.i > Len(photos_db)
       THEN /\ local' = [local EXCEPT ![Replacer] =
                           Some([photo_id |-> l.photo_id, resp |-> ServerError])]
            /\ UNCHANGED photos_db
       ELSE /\ photos_db' = ReplaceAt(photos_db, l.i, l.updated_photo)
            /\ local' = [local EXCEPT ![Replacer] =
                           Some([photo_id |-> l.photo_id,
                                 resp |-> [status |-> 200, body |-> l.updated_photo]])]
    /\ pc' = [pc EXCEPT ![Replacer] = "done"]
    /\ UNCHANGED <<photo_id_counter, now, req, resp, hist_vars, test_counter, fib_vars,
                   started, before>>

\* DELETE /photos/{photo_id} reaches delete_photo.
delete_photo_begin(photo_id) ==
    /\ pc[Deleter] = "idle"
    /\ photo_id \notin OtherId(Deleter)
    /\ local' = [local EXCEPT ![Deleter] = Some([photo_id |-> photo_id, i |-> 1])]
    /\ pc' = [pc EXCEPT ![Deleter] = "loop"]
    /\ before' = IF before = None THEN Some(photos_db) ELSE before
    /\ UNCHANGED <<db_vars, now, req, resp, hist_vars, test_counter, fib_vars, started>>

\* One pass of delete_photo's loop.
delete_photo_iter ==
    /\ pc[Deleter] = "loop"
    /\ LET l == Locals(Deleter) IN
       IF l.i > Len(photos_db)
       THEN /\ local' = [local EXCEPT ![Deleter] =
                           Some([photo_id |-> l.photo_id, resp |-> NotFound(l.photo_id)])]
            /\ pc' = [pc EXCEPT ![Deleter] = "done"]
       ELSE IF photos_db[l.i].id = l.photo_id
       THEN /\ pc' = [pc EXCEPT ![Deleter] = "found"]
            /\ UNCHANGED local
       ELSE /\ local' = [local EXCEPT ![Deleter] = Some([l EXCEPT !.i = l.i + 1])]
            /\ UNCHANGED pc
    /\ UNCHANGED <<db_vars, now, req, resp, hist_vars, test_counter, fib_vars,
                   started, before>>

\* `deleted_photo = photos_db.pop(i)` and the return: pop raises IndexError
\* when the list has no position i any more.
delete_photo_pop ==
    /\ pc[Deleter] = "found"
    /\ LET l == Locals(Deleter) IN
       IF l.i > Len(photos_db)
       THEN /\ local' = [local EXCEPT ![Deleter] =
                           Some([photo_id |-> l.photo_id, resp |-> ServerError])]
            /\ UNCHANGED <<photos_db, deleted>>
       ELSE /\ photos_db' = Pop(photos_db, l.i)
            /\ deleted' = deleted \cup {photos_db[l.i].id}
            /\ local' = [local EXCEPT ![Deleter] =
                           Some([photo_id |-> l.photo_id,
                                 resp |-> [status |-> 200,
                                           body   |-> [message       |-> DeletedMessage(l.photo_id),
                                                       deleted_photo |-> photos_db[l.i]]]])]
    /\ pc' = [pc EXCEPT ![Deleter] = "done"]
    /\ UNCHANGED <<photo_id_counter, now, req, resp, created_ids, stamped_at,
                   test_counter, fib_vars, started, before>>

NextRace ==
    \/ create_photo_before
    \/ \E photo_id \in Ids, body \in ValidBodies : update_photo_begin(photo_id, body)
    \/ update_photo_iter
    \/ update_photo_store
    \/ \E photo_id \in Ids : delete_photo_begin(photo_id)
    \/ delete_photo_iter
    \/ delete_photo_pop

SpecRace == Init /\ [][NextRace]_vars

\* ------------------------------------------------- the steps, as observed

\* The step just taken handled a request (a Tick, the only step that moves
\* the clock, handles none and leaves req and resp as they were).
IsRequest == now' = now
\* The step just taken handled request op and answered with status.
Handled(op, status) == IsRequest /\ req'.op = op /\ resp'.status = status
\* ... for the path parameter photo_id.
HandledFor(op, photo_id, status) ==
    /\ Handled(op, status)
    /\ req'.photo_id = photo_id

\* The records of db carrying photo_id, and the ids of db in list order.
RecordsWithId(db, photo_id) == {db[i] : i \in {j \in 1..Len(db) : db[j].id = photo_id}}
IdsOf(db) == [i \in 1..Len(db) |-> db[i].id]
\* The records of db other than those carrying photo_id, in list order.
Without(db, photo_id) == SelectSeq(db, LAMBDA p : p.id # photo_id)
\* The records of db whose tags contain t, in list order.
Tagged(db, t) == SelectSeq(db, LAMBDA p : \E k \in 1..Len(p.tags) : p.tags[k] = t)
\* The ids created and not deleted, in the order of their creation.
SurvivingIds == SelectSeq(created_ids, LAMBDA id : id \notin deleted)
\* The key is left out of the body or null.
Absent(body, f) == f \notin DOMAIN body \/ body[f] = None
\* The body carries a title and a url, neither of them null.
HasRequired(body) == \A f \in {"title", "url"} : f \in DOMAIN body /\ body[f] # None
\* The step just taken handled a get, replace or delete of photo_id.
AddressedTo(photo_id) ==
    /\ IsRequest
    /\ req'.op \in {"get_photo", "update_photo", "delete_photo"}
    /\ req'.photo_id = photo_id

\* ----------------------------------------------------------------- claims

\* C1: the ids returned by the successful creates are 1, 2, 3, ... in call
\* order, whatever was deleted in between; so an id that was deleted is never
\* returned by a later create.
C1_CreateIdsCountUp ==
    /\ \A k \in 1..Len(created_ids) : created_ids[k] = k
    /\ (req.op = "create_photo" /\ resp.status = 201) =>
            /\ resp.body.id = Len(created_ids)
            /\ resp.body.id \notin deleted

\* C1 witness: a create returned id 2 after record 1, the most recently created
\* one, had been deleted.
C1_Witness ==
    /\ req.op = "create_photo" /\ resp.status = 201
    /\ resp.body.id = 2
    /\ 1 \in deleted

\* C2: no two records of the collection have the same id.
C2_UniqueIds ==
    \A i, j \in 1..Len(photos_db) :
        photos_db[i].id = photos_db[j].id => i = j

\* C2 witness: two records are stored, after a delete and a successful replace.
C2_Witness ==
    /\ Len(photos_db) = 2
    /\ deleted # {}
    /\ req.op = "update_photo" /\ resp.status = 200

\* C3: the counter starts at 1, a successful create adds exactly 1 to it, and
\* every other step (reads, replace, delete, a create or replace that fails)
\* leaves it unchanged.
C3_CounterFrame ==
    /\ photo_id_counter = 1
    /\ [][IF Handled("create_photo", 201)
          THEN photo_id_counter' = photo_id_counter + 1
          ELSE photo_id_counter' = photo_id_counter]_vars

\* C3 witness: a create was rejected by validation after two creates and a
\* delete, and the counter stands at 3.
C3_Witness ==
    /\ req.op = "create_photo" /\ resp.status = 422
    /\ photo_id_counter = 3
    /\ deleted # {}

\* C4: while a record is stored its created_at is the value its create
\* stamped, in the collection and in every response that returns the record,
\* whatever replaces happened since.
C4_CreatedAtImmutable ==
    /\ \A i \in 1..Len(photos_db) :
          /\ photos_db[i].id \in DOMAIN stamped_at
          /\ photos_db[i].created_at = stamped_at[photos_db[i].id]
    /\ (req.op \in {"get_photo", "update_photo"} /\ resp.status = 200) =>
          resp.body.created_at = stamped_at[resp.body.id]

\* C4 witness: a replace succeeded at clock 1 on a record created at clock 0,
\* and the record still carries the stamp of clock 0.
C4_Witness ==
    /\ req.op = "update_photo" /\ resp.status = 200
    /\ now = 1
    /\ resp.body.created_at = IsoFormat(0)
    /\ resp.body \in Range(photos_db)

\* C5: a create that returns R leaves exactly R stored under R.id; every step
\* other than a successful replace or delete of that id leaves what is stored
\* under it as it was; and a get of an id returns the record stored under it.
\* So from its create until its first replace or delete, get(R.id) returns R.
C5_GetReturnsCreated ==
    [][/\ Handled("create_photo", 201) =>
            RecordsWithId(photos_db', resp'.body.id) = {resp'.body}
       /\ \A id \in Ids :
            (/\ RecordsWithId(photos_db, id) # {}
             /\ ~HandledFor("update_photo", id, 200)
             /\ ~HandledFor("delete_photo", id, 200))
            => RecordsWithId(photos_db', id) = RecordsWithId(photos_db, id)
       /\ \A id \in Ids :
            (/\ IsRequest /\ req'.op = "get_photo" /\ req'.photo_id = id
             /\ RecordsWithId(photos_db, id) # {})
            => /\ resp'.status = 200
               /\ RecordsWithId(photos_db, id) = {resp'.body}
      ]_vars

\* C5 witness: get(1) returned record 1, with its creation stamp, after record
\* 2 was created and deleted and record 3 created.
C5_Witness ==
    /\ req.op = "get_photo" /\ resp.status = 200
    /\ resp.body.id = 1
    /\ 2 \in deleted
    /\ IdsOf(photos_db) = <<1, 3>>

\* C6: an id that was deleted is stored no more, now or after any later
\* creates, replaces and deletes, and a get of it answers 404.
C6_DeletedStaysGone ==
    \A id \in deleted :
        /\ RecordsWithId(photos_db, id) = {}
        /\ (req.op = "get_photo" /\ req.photo_id = id) => resp.status = 404

\* C6 witness: get(1) answered 404 after record 1 was deleted and two more
\* records were created.
C6_Witness ==
    /\ req.op = "get_photo" /\ req.photo_id = 1
    /\ resp.status = 404
    /\ 1 \in deleted
    /\ photo_id_counter = 4

\* C7: for every tag T that is supplied, the empty string included, list(tag=T)
\* returns exactly the records whose tags contain T, in collection order.
C7_ListFiltersByTag ==
    (req.op = "list_photos" /\ req.tag # None) =>
        (resp.status = 200 /\ resp.body = Tagged(photos_db, req.tag[1]))

\* C7, for the tags other than the empty string: list(tag=T) returns exactly
\* the records whose tags contain T, in collection order.
C7_ListFiltersByNonEmptyTag ==
    (req.op = "list_photos" /\ req.tag # None /\ req.tag # Some("")) =>
        (resp.status = 200 /\ resp.body = Tagged(photos_db, req.tag[1]))

\* C8: after a successful replace the record stored under the id, which is the
\* record returned, has the input's title and url, the input's description or
\* null when the input has none, and the input's tags or the empty sequence
\* when the input has none or null; nothing is kept of the old values.
C8_ReplaceOverwrites ==
    (req.op = "update_photo" /\ resp.status = 200) =>
        LET b == req.body
            r == resp.body
        IN  /\ RecordsWithId(photos_db, req.photo_id) = {r}
            /\ r.id = req.photo_id
            /\ r.title = b.title[1]
            /\ r.url = b.url[1]
            /\ r.description = IF "description" \in DOMAIN b THEN b.description ELSE None
            /\ r.tags = IF "tags" \in DOMAIN b /\ b.tags # None THEN b.tags[1] ELSE <<>>

\* C8 witness: a replace with null description and null tags succeeded on a
\* record while another record is stored.
C8_Witness ==
    /\ req.op = "update_photo" /\ resp.status = 200
    /\ req.body = NullBody
    /\ resp.body.description = None /\ resp.body.tags = <<>>
    /\ Len(photos_db) = 2

\* C9: a successful delete(id) leaves the collection as it was with the one
\* record carrying id taken out, the others unchanged and in their order, and
\* answers with that record and the message "Photo {id} deleted successfully".
C9_DeleteRemovesOne ==
    [][\A id \in Ids :
         HandledFor("delete_photo", id, 200) =>
            /\ Cardinality(RecordsWithId(photos_db, id)) = 1
            /\ photos_db' = Without(photos_db, id)
            /\ Len(photos_db') = Len(photos_db) - 1
            /\ resp'.body.deleted_photo \in RecordsWithId(photos_db, id)
            /\ resp'.body.message = "Photo " \o ToString(id) \o " deleted successfully"
      ]_vars

\* C9 witness: record 2 was deleted from between records 1 and 3.
C9_Witness ==
    /\ req.op = "delete_photo" /\ req.photo_id = 2
    /\ resp.status = 200
    /\ IdsOf(photos_db) = <<1, 3>>

\* C10 as stated: a get, replace or delete of an id no record has answers 404
\* with detail "Photo with id {id} not found" and changes neither the
\* collection nor the counter.
C10_AbsentIdIsNotFound ==
    [][\A id \in Ids :
         (AddressedTo(id) /\ RecordsWithId(photos_db, id) = {}) =>
            /\ resp'.status = 404
            /\ resp'.body = [detail |-> "Photo with id " \o ToString(id) \o " not found"]
            /\ UNCHANGED <<photos_db, photo_id_counter>>
      ]_vars

\* C10 amended: a get, a delete, or a replace whose input carries title and
\* url, of an id no record has, answers 404 with detail "Photo with id {id} not
\* found"; a replace whose input lacks title or url answers 422 instead; all
\* of them change neither the collection nor the counter.
C10_AbsentIdIsNotFoundOrInvalid ==
    [][\A id \in Ids :
         (AddressedTo(id) /\ RecordsWithId(photos_db, id) = {}) =>
            /\ IF req'.op = "update_photo" /\ ~HasRequired(req'.body)
               THEN resp'.status = 422
               ELSE /\ resp'.status = 404
                    /\ resp'.body =
                         [detail |-> "Photo with id " \o ToString(id) \o " not found"]
            /\ UNCHANGED <<photos_db, photo_id_counter>>
      ]_vars

\* C10 witness: a replace of the deleted id 1 answered 404 while two records
\* are stored.
C10_Witness ==
    /\ req.op = "update_photo" /\ req.photo_id = 1
    /\ resp.status = 404
    /\ 1 \in deleted
    /\ Len(photos_db) = 2

\* C11: a create or replace whose input lacks title or url answers 422 and
\* changes neither the collection nor the counter; so a create that succeeds
\* returns the counter value it found, the id it would have returned had the
\* rejected calls never been made.
C11_InvalidInputChangesNothing ==
    [][/\ (/\ IsRequest
           /\ req'.op \in {"create_photo", "update_photo"}
           /\ ~HasRequired(req'.body))
          => /\ resp'.status = 422
             /\ UNCHANGED <<photos_db, photo_id_counter>>
       /\ Handled("create_photo", 201) =>
             /\ HasRequired(req'.body)
             /\ resp'.body.id = photo_id_counter
             /\ resp'.body.id = Len(created_ids) + 1
      ]_vars

\* C11 witness: a replace of the stored record 2 with an input lacking url was
\* rejected, two records stored and the counter at 3.
C11_Witness ==
    /\ req.op = "update_photo" /\ req.body = NoUrlBody /\ req.photo_id = 2
    /\ resp.status = 422
    /\ IdsOf(photos_db) = <<1, 2>>
    /\ photo_id_counter = 3

\* C12: once reset_db has run the registry is in its initial state, the
\* collection empty and the id counter 1, whatever was created before; so the
\* first create after it returns id 1 (and the next ones 2 and 3).
C12_ResetRestoresInitial ==
    /\ [](req.op = "reset_db" => (photos_db = <<>> /\ photo_id_counter = 1))
    /\ [][(req.op = "reset_db" /\ Handled("create_photo", 201))
            => resp'.body.id = 1]_vars

\* C13: the collection holds the records created and not deleted, each once,
\* in the order of their creation, whatever was replaced or deleted; and
\* list() without a tag returns exactly the collection, in that order.
C13_ListAllInCreationOrder ==
    /\ IdsOf(photos_db) = SurvivingIds
    /\ (req.op = "list_photos" /\ req.tag = None) =>
          (resp.status = 200 /\ resp.body = photos_db)

\* C13 witness: list() returned records 1 and 3, record 2 deleted.
C13_Witness ==
    /\ req.op = "list_photos" /\ req.tag = None
    /\ IdsOf(resp.body) = <<1, 3>>
    /\ 2 \in deleted

\* C14: a create whose input has neither description nor tags (left out or
\* null) stores, at the end of the collection, and returns a record with
\* description null, tags the empty sequence and the input's title and url.
C14_CreateDefaults ==
    (/\ req.op = "create_photo" /\ resp.status = 201
     /\ Absent(req.body, "description") /\ Absent(req.body, "tags"))
    => /\ resp.body.description = None
       /\ resp.body.tags = <<>>
       /\ resp.body.title = req.body.title[1]
       /\ resp.body.url = req.body.url[1]
       /\ photos_db # <<>>
       /\ photos_db[Len(photos_db)] = resp.body

\* C14 witness: a create with title and url only succeeded as the second
\* record of the collection.
C14_Witness ==
    /\ req.op = "create_photo" /\ resp.status = 201
    /\ req.body = MinimalBody
    /\ Len(photos_db) = 2
    /\ photos_db[1].tags # <<>>

\* C15: health answers 200 with status "healthy" and a photos_count that is the
\* number of records stored: the successful creates less the successful
\* deletes.
C15_HealthCounts ==
    req.op = "health_check" =>
       /\ resp.status = 200
       /\ resp.body.status = "healthy"
       /\ resp.body.photos_count = Len(photos_db)
       /\ resp.body.photos_count = Len(created_ids) - Cardinality(deleted)

\* C15 witness: health reported one record after two creates and one delete.
C15_Witness ==
    /\ req.op = "health_check"
    /\ resp.body.photos_count = 1
    /\ Len(created_ids) = 2
    /\ Cardinality(deleted) = 1

\* C16: a successful replace(id) leaves the ids of the collection as they were,
\* position by position, every record other than the one carrying id as it
\* was, and the counter as it was.
C16_ReplaceFrame ==
    [][\A id \in Ids :
         HandledFor("update_photo", id, 200) =>
            /\ IdsOf(photos_db') = IdsOf(photos_db)
            /\ \A i \in 1..Len(photos_db) :
                  photos_db[i].id # id => photos_db'[i] = photos_db[i]
            /\ photo_id_counter' = photo_id_counter
      ]_vars

\* C16 witness: record 1, the first of three, was replaced.
C16_Witness ==
    /\ req.op = "update_photo" /\ req.photo_id = 1
    /\ resp.status = 200
    /\ IdsOf(photos_db) = <<1, 2, 3>>

\* C17: root, health, list and get change neither the collection nor the
\* counter; and a step that changes the collection is a successful create
\* appending the record it returns, a successful replace overwriting the one
\* record of its id, or a successful delete removing the one record of its id.
C17_OnlyWritesWrite ==
    [][/\ (/\ IsRequest
           /\ req'.op \in {"read_root", "health_check", "list_photos", "get_photo"})
          => UNCHANGED <<photos_db, photo_id_counter>>
       /\ photos_db' # photos_db =>
          \/ /\ Handled("create_photo", 201)
             /\ photos_db' = Append(photos_db, resp'.body)
          \/ /\ Handled("update_photo", 200)
             /\ Len(photos_db') = Len(photos_db)
             /\ \A i \in 1..Len(photos_db) :
                   photos_db'[i] # photos_db[i] => photos_db[i].id = req'.photo_id
          \/ /\ Handled("delete_photo", 200)
             /\ Len(photos_db') = Len(photos_db) - 1
             /\ photos_db' = Without(photos_db, req'.photo_id)
      ]_vars

\* C17 witness: a list by tag returned one of two stored records, after a
\* delete.
C17_Witness ==
    /\ req.op = "list_photos" /\ req.tag = Some("nature")
    /\ Len(resp.body) = 1
    /\ Len(photos_db) = 2
    /\ deleted # {}

\* C19: along the collection the ids are strictly ascending, and every id in
\* it is at least 1 and less than the counter.
C19_IdsAscendBelowCounter ==
    /\ \A i, j \in 1..Len(photos_db) :
          i < j => photos_db[i].id < photos_db[j].id
    /\ \A i \in 1..Len(photos_db) :
          1 <= photos_db[i].id /\ photos_db[i].id < photo_id_counter

\* C19 witness: records 1 and 3 are stored, the counter at 4, after record 1
\* was replaced.
C19_Witness ==
    /\ IdsOf(photos_db) = <<1, 3>>
    /\ photo_id_counter = 4
    /\ req.op = "update_photo" /\ req.photo_id = 1 /\ resp.status = 200

\* The Fibonacci numbers F(0..k), F(0) = 0, F(1) = 1, F(j) = F(j-1) + F(j-2),
\* as unbounded integers: f, which holds F(0..j) for some j >= 1, extended.
RECURSIVE FibNumbersFrom(_, _)
FibNumbersFrom(f, k) ==
    IF Len(f) > k THEN f
    ELSE FibNumbersFrom(Append(f, BigAdd(f[Len(f)], f[Len(f) - 1])), k)
FibNumbers(k) == FibNumbersFrom(<< <<0>>, <<1>> >>, k)

\* F(0..k) in machine integers, for the k they fit.
RECURSIVE SmallFibNumbers(_)
SmallFibNumbers(k) ==
    IF k = 0 THEN <<0>>
    ELSE IF k = 1 THEN <<0, 1>>
    ELSE LET f == SmallFibNumbers(k - 1)
         IN  Append(f, f[k] + f[k - 1])

\* What fibonacci(n) is to print: nothing for n <= 0; else the header and the
\* n lines "i: F(i-1)", i = 1..n.
FibExpected(n) ==
    IF n <= 0 THEN <<>>
    ELSE LET f == FibNumbers(n - 1)
         IN  <<"Fibonacci sequence (first " \o ToString(n) \o " numbers):">>
             \o [i \in 1..n |-> ToString(i) \o ": " \o BigStr(f[i])]

\* C18: fibonacci(n) returns having printed nothing when n <= 0 and otherwise
\* the header line followed by exactly n lines, the i-th showing i and the
\* exact F(i-1): equal to the machine-integer value where that fits, and
\* 218922995834555169026 on the last line of fibonacci(100).  The loop makes
\* at most n passes, and the call returns.
C18_FibonacciPrints ==
    /\ [](fib_pc = "done" =>
            /\ fib_out = FibExpected(fib_n)
            /\ fib_n <= 0 => fib_out = <<>>
            /\ fib_n >= 1 => Len(fib_out) = fib_n + 1
            /\ \A i \in 1..fib_n :
                  i <= 40 => fib_out[i + 1] =
                     ToString(i) \o ": " \o ToString(SmallFibNumbers(39)[i])
            /\ fib_n = 100 => fib_out[101] = "100: 218922995834555169026")
    /\ [](fib_pc = "loop" => fib_i <= fib_n)
    /\ <>(fib_pc = "done")

\* C18 witness: fibonacci(100) has returned with its 101 lines, and a value
\* beyond 64 bits on the last.
C18_Witness ==
    /\ fib_pc = "done"
    /\ fib_n = 100
    /\ Len(fib_out) = 101
    /\ Len(fib_a) > 20

\* Both overlapping creates have returned.
BothReturned == \A t \in Threads : pc[t] = "done"

\* C20: when two creates overlap, their steps interleaved in any order, the
\* two records created get distinct ids and the counter ends exactly 2 higher
\* than it was when the first of them began.
C20_OverlapDistinctIds ==
    BothReturned =>
        /\ local[1][1].id # local[2][1].id
        /\ photo_id_counter = started[1] + 2

\* What the two creates do leave behind, however they interleave: both
\* records are in the list, after those that were there; each id is the
\* counter at the start or the one after it; the counter ends 1 or 2 higher;
\* and ids that differ come with a counter 2 higher.
C20_OverlapOutcome ==
    BothReturned =>
        /\ Len(photos_db) = started[1] + 1
        /\ {photos_db[started[1]], photos_db[started[1] + 1]} = {local[1][1], local[2][1]}
        /\ \A t \in Threads : local[t][1].id \in {started[1], started[1] + 1}
        /\ photo_id_counter \in {started[1] + 1, started[1] + 2}
        /\ local[1][1].id # local[2][1].id => photo_id_counter = started[1] + 2

\* The two creates have overlapped and returned the same id; the counter has
\* moved by one only.
C20_DuplicateId ==
    /\ BothReturned
    /\ local[1][1].id = local[2][1].id
    /\ photos_db[Len(photos_db)].id = photos_db[Len(photos_db) - 1].id
    /\ photo_id_counter = started[1] + 1

\* The replace and the delete that overlapped have both returned or raised.
BothAnswered == pc[Replacer] = "done" /\ pc[Deleter] = "done"

\* C21: when a replace(id) overlaps a delete of a different record, their
\* steps interleaved in any order, the replace overwrites only the record
\* whose id is id and the delete removes only the record it targeted: the
\* records the two calls were not made for are all still there, as they were
\* and in their order, no id appears twice, and neither call fails with an
\* error other than NotFound.
C21_ReplaceAndDeleteKeepOthers ==
    BothAnswered =>
        LET replaced_id == Locals(Replacer).photo_id
            deleted_id  == Locals(Deleter).photo_id
        IN  /\ Without(Without(photos_db, replaced_id), deleted_id)
                  = Without(Without(before[1], replaced_id), deleted_id)
            /\ \A j, k \in 1..Len(photos_db) : photos_db[j].id = photos_db[k].id => j = k
            /\ \A t \in Threads : Locals(t).resp.status \in {200, 404}

\* What the overlap cannot harm is the delete: it answers 200 exactly when
\* its record was in the list, hands that record back, and the record is
\* gone afterwards; the list is shorter by that one record and no more.
C21_DeleteUnharmed ==
    BothAnswered =>
        LET deleted_id == Locals(Deleter).photo_id
            was_there  == \E j \in 1..Len(before[1]) : before[1][j].id = deleted_id
        IN  /\ Locals(Deleter).resp.status = (IF was_there THEN 200 ELSE 404)
            /\ was_there =>
                  Locals(Deleter).resp.body.deleted_photo
                     = before[1][FindIndex(before[1], deleted_id)]
            /\ Locals(Replacer).resp.status = 200 =>
                  \A j \in 1..Len(photos_db) : photos_db[j].id # deleted_id
            /\ Len(photos_db) = Len(before[1]) - (IF was_there THEN 1 ELSE 0)

\* The replace of 2 has answered 200 and the delete of 1 has answered 200:
\* the record 3 is lost, overwritten by the replace, and the id 2 is in the
\* list twice.
C21_LostRecord ==
    /\ BothAnswered
    /\ IdsOf(before[1]) = <<1, 2, 3>>
    /\ Locals(Replacer).photo_id = 2 /\ Locals(Replacer).resp.status = 200
    /\ Locals(Deleter).photo_id = 1 /\ Locals(Deleter).resp.status = 200
    /\ IdsOf(photos_db) = <<2, 2>>

\* The replace of the last record has raised IndexError: the delete took a
\* record out between the lookup and the store.
C21_IndexError ==
    /\ BothAnswered
    /\ Locals(Replacer).resp.status = 500
    /\ Locals(Deleter).resp.status = 200

\* The replace has answered NotFound for a record that was in the list all
\* along: the delete shifted it under the loop, which passed it by.
C21_SkippedRecord ==
    /\ BothAnswered
    /\ Locals(Replacer).resp.status = 404
    /\ \E j \in 1..Len(photos_db) : photos_db[j].id = Locals(Replacer).photo_id

====
